---- MODULE Spec2Model ----
\* A model of electron/ConfigHelper.ts: the JSON configuration store of the
\* application (load / sanitize / merge / save / notify).
\*
\* A JavaScript object is a function whose DOMAIN is the set of keys it
\* defines; a key that is not in the DOMAIN reads as undefined. Strings that
\* the code inspects character by character (the API key) are sequences of
\* one-character strings. Opacity is counted in tenths (0.1 is 1, 1.0 is 10).
EXTENDS Integers, Sequences, FiniteSets, TLC

\* ---------------------------------------------------------------- bounds
\* The number of updating calls (updateConfig, setOpacity, setLanguage) of a run.
MaxCalls == 2

\* ---------------------------------------------------------------- values
Fields ==
  {"apiKey", "apiProvider", "extractionModel", "solutionModel",
   "debuggingModel", "language", "opacity"}

ModelFields == {"extractionModel", "solutionModel", "debuggingModel"}

Providers == {"openai", "gemini", "anthropic"}

\* JSON null, as a value of a string-typed field of an on-disk document.
Null == "<null>"

OpenAIModels == {"gpt-4o", "gpt-4o-mini", "gpt-5"}

GeminiModels == {"gemini-1.5-pro", "gemini-2.0-flash"}

AnthropicModels ==
  {"claude-3-7-sonnet-20250219", "claude-3-5-sonnet-20241022",
   "claude-3-opus-20240229"}

\* Math.min(1.0, Math.max(0.1, opacity)), in tenths.
MinOpacity == 1

MaxOpacity == 10

defaultConfig ==
  [apiKey |-> <<>>,
   apiProvider |-> "openai",
   extractionModel |-> "gpt-5",
   solutionModel |-> "gpt-5",
   debuggingModel |-> "gpt-5",
   language |-> "python",
   opacity |-> 10]

\* ---------------------------------------------------------------- inputs
\* API keys a caller supplies: empty, blank, an OpenAI-style key, the same key
\* pasted with a leading blank, and a key of another vendor.
Keys ==
  {<<>>, <<" ">>, <<"s", "k", "-", "a">>, <<" ", "s", "k", "-", "a">>,
   <<"A", "I">>}

\* Model names a caller supplies: allow-listed ones, an unknown one, and "".
ModelInputs == {"gpt-4o", "gemini-1.5-pro", "not-a-real-model", ""}

Languages == {"python", "java"}

\* Opacity arguments, in tenths: below, inside and above [0.1, 1.0].
OpacityInputs == {-10, 5, 50}

\* ---------------------------------------------------------------- helpers
\* String.prototype.trim on a sequence of characters.
RECURSIVE TrimStart(_)
TrimStart(s) ==
  IF s # <<>> /\ Head(s) = " " THEN TrimStart(Tail(s)) ELSE s

RECURSIVE TrimEnd(_)
TrimEnd(s) ==
  IF s # <<>> /\ s[Len(s)] = " " THEN TrimEnd(SubSeq(s, 1, Len(s) - 1)) ELSE s

Trim(s) == TrimEnd(TrimStart(s))

\* String.prototype.startsWith.
StartsWith(s, prefix) ==
  /\ Len(s) >= Len(prefix)
  /\ SubSeq(s, 1, Len(prefix)) = prefix

SkPrefix == <<"s", "k", "-">>

\* Object spread { ...a, ...b }.
Spread(a, b) ==
  [k \in (DOMAIN a) \cup (DOMAIN b) |-> IF k \in DOMAIN b THEN b[k] ELSE a[k]]

\* obj.k = v on an object.
Assign(obj, k, v) == Spread(obj, k :> v)

\* JavaScript truthiness of obj.k for a string-typed field k: undefined, null
\* and "" are falsy.
Truthy(obj, k) ==
  /\ k \in DOMAIN obj
  /\ IF k = "apiKey" THEN obj[k] # <<>> ELSE obj[k] \notin {"", Null}

\* ---------------------------------------------------------------- the code
\* The allow-list check of sanitizeModelSelection, one branch per provider;
\* any other provider falls through to "return model".
sanitizeModelSelection(model, provider) ==
  IF provider = "openai"
  THEN IF model \notin OpenAIModels THEN "gpt-5" ELSE model
  ELSE IF provider = "gemini"
  THEN IF model \notin GeminiModels THEN "gemini-2.0-flash" ELSE model
  ELSE IF provider = "anthropic"
  THEN IF model \notin AnthropicModels
       THEN "claude-3-7-sonnet-20250219"
       ELSE model
  ELSE model

\* "if (obj.k) obj.k = sanitizeModelSelection(obj.k, provider)".
SanitizeField(obj, k, provider) ==
  IF Truthy(obj, k)
  THEN Assign(obj, k, sanitizeModelSelection(obj[k], provider))
  ELSE obj

SanitizeModels(obj, provider) ==
  SanitizeField(
    SanitizeField(SanitizeField(obj, "extractionModel", provider),
                  "solutionModel", provider),
    "debuggingModel", provider)

\* The order in which the keys of a configuration are written.
FieldOrder ==
  <<"apiKey", "apiProvider", "extractionModel", "solutionModel",
    "debuggingModel", "language", "opacity">>

\* JSON.stringify of an object: its members, key by key.
JSONStringify(obj) ==
  LET Has(k) == k \in DOMAIN obj
      keys == SelectSeq(FieldOrder, Has)
  IN [i \in 1..Len(keys) |-> <<keys[i], obj[keys[i]]>>]

\* JSON.parse of a text of members: an object; the last member of a key wins.
JSONParse(text) ==
  LET Last(k) ==
        CHOOSE i \in 1..Len(text) :
          /\ text[i][1] = k
          /\ \A j \in (i + 1)..Len(text) : text[j][1] # k
  IN [k \in {text[i][1] : i \in 1..Len(text)} |-> text[Last(k)][2]]

\* The object with no keys.
EmptyObj == [k \in {} |-> k]

\* The backing file: whether it exists, whether readFileSync + JSON.parse
\* succeed on it, and its text.
FileOf(doc) == [exists |-> TRUE, parses |-> TRUE, text |-> JSONStringify(doc)]

NoFile == [exists |-> FALSE, parses |-> FALSE, text |-> <<>>]

\* saveConfig: writeFileSync(JSON.stringify(config)); a failing write is
\* caught and logged, and the file is left as it was. ok says whether the
\* file system accepts the write.
saveConfig(f, config, ok) == IF ok THEN FileOf(config) ELSE f

\* loadConfig, lines 108-114: coerce an unknown or missing provider.
NormalizeProvider(config) ==
  IF "apiProvider" \in DOMAIN config /\ config["apiProvider"] \in Providers
  THEN config
  ELSE Assign(config, "apiProvider", "gemini")

\* loadConfig creating a missing file with the provider of line 113 in it
\* instead of the defaults it returns.
loadConfigSeedsGemini(f, ok) ==
  IF f.exists
  THEN IF f.parses
       THEN LET config == NormalizeProvider(JSONParse(f.text))
            IN [cfg |-> Spread(defaultConfig,
                               SanitizeModels(config, config["apiProvider"])),
                file |-> f]
       ELSE [cfg |-> defaultConfig, file |-> f]
  ELSE [cfg |-> defaultConfig,
        file |-> saveConfig(f, Assign(defaultConfig, "apiProvider", "gemini"), ok)]

\* loadConfig saving the configuration it returns.
loadConfigWritesBack(f, ok) ==
  IF f.exists
  THEN IF f.parses
       THEN LET config == NormalizeProvider(JSONParse(f.text))
                merged == Spread(defaultConfig,
                                 SanitizeModels(config, config["apiProvider"]))
            IN [cfg |-> merged, file |-> saveConfig(f, merged, ok)]
       ELSE [cfg |-> defaultConfig, file |-> f]
  ELSE [cfg |-> defaultConfig, file |-> saveConfig(f, defaultConfig, ok)]

\* loadConfig: the value it returns and the file it leaves behind.
loadConfig(f, ok) ==
  IF f.exists
  THEN IF f.parses
       THEN LET config == NormalizeProvider(JSONParse(f.text))
            IN [cfg |-> Spread(defaultConfig,
                               SanitizeModels(config, config["apiProvider"])),
                file |-> f]
       ELSE [cfg |-> defaultConfig, file |-> f]
  ELSE [cfg |-> defaultConfig, file |-> saveConfig(f, defaultConfig, ok)]

\* updateConfig, lines 174-186: the provider the update commits. An explicit
\* updates.apiProvider wins; otherwise a non-empty updates.apiKey whose
\* trimmed text starts with "sk-" selects openai; otherwise the loaded one.
DetectsKey(updates) ==
  Truthy(updates, "apiKey") /\ ~Truthy(updates, "apiProvider")

\* EffectiveProvider without the trim of line 179.
EffectiveProviderUntrimmed(updates, currentConfig) ==
  IF DetectsKey(updates) /\ StartsWith(updates["apiKey"], SkPrefix)
  THEN "openai"
  ELSE IF Truthy(updates, "apiProvider")
  THEN updates["apiProvider"]
  ELSE currentConfig["apiProvider"]

EffectiveProvider(updates, currentConfig) ==
  IF DetectsKey(updates) /\ StartsWith(Trim(updates["apiKey"]), SkPrefix)
  THEN "openai"
  ELSE IF Truthy(updates, "apiProvider")
  THEN updates["apiProvider"]
  ELSE currentConfig["apiProvider"]

\* Line 185: "updates.apiProvider = provider" after auto-detection.
RecordProvider(updates, provider) ==
  IF DetectsKey(updates)
  THEN Assign(updates, "apiProvider", provider)
  ELSE updates

\* Lines 189-198: on a change of provider the models are reset, in the one
\* branch the code has (openai).
ResetModels(updates, currentConfig) ==
  IF /\ Truthy(updates, "apiProvider")
     /\ updates["apiProvider"] # currentConfig["apiProvider"]
     /\ updates["apiProvider"] = "openai"
  THEN Spread(updates,
              [extractionModel |-> "gpt-5",
               solutionModel |-> "gpt-5",
               debuggingModel |-> "gpt-5"])
  ELSE updates

\* ShouldEmit with opacity added to the fields that trigger the event.
ShouldEmitOpacityToo(updates) == DOMAIN updates # {}

\* Lines 225-232: the fields whose presence in updates triggers the event.
ShouldEmit(updates) ==
  \/ "apiKey" \in DOMAIN updates
  \/ "apiProvider" \in DOMAIN updates
  \/ "extractionModel" \in DOMAIN updates
  \/ "solutionModel" \in DOMAIN updates
  \/ "debuggingModel" \in DOMAIN updates
  \/ "language" \in DOMAIN updates

\* The catch block of updateConfig, line 239.
UpdateFallback(currentConfig) == defaultConfig

\* The order of the effects of one updateConfig call.
UpdateSteps(emits) ==
  IF emits THEN <<"load", "save", "emit">> ELSE <<"load", "save">>

\* Lines 173-221 of updateConfig: load, merge and save, from the file f.
\* updates is the object after lines 177-218 have rewritten it.
LoadMergeSave(f, updates, ok) ==
  LET loaded == loadConfig(f, ok)
      currentConfig == loaded.cfg
      provider == EffectiveProvider(updates, currentConfig)
      u1 == RecordProvider(updates, provider)
      u2 == ResetModels(u1, currentConfig)
      u3 == SanitizeModels(u2, provider)
      newConfig == Spread(currentConfig, u3)
  IN [cur |-> currentConfig,
      updates |-> u3,
      new |-> newConfig,
      file |-> saveConfig(loaded.file, newConfig, ok)]

\* What an updating listener does when the event is delivered: setOpacity(0.5),
\* that is updateConfig({opacity: 0.5}), which emits nothing itself.
ListenerUpdate == [opacity |-> 5]

\* The file after the delivery that lost the listener's update: the update
\* of the listener ran on the file as it was before the save of line 221.
AfterDeliveryOverwritten(written, ok, lsn) == written

\* The file after the event was delivered (line 233), written being the file
\* the save of line 221 left.
AfterDelivery(written, ok, lsn) ==
  IF lsn = "updater"
  THEN LoadMergeSave(written, ListenerUpdate, ok).file
  ELSE written

\* The effects of the listener, after those of the call that emitted.
ListenerSteps(lsn) ==
  IF lsn = "updater" THEN <<"listener load", "listener save">> ELSE <<>>

\* updateConfig as a whole: from the file f, the caller's updates, the file
\* system's state and the behaviour of the config-updated listener to the
\* file left behind, the value returned and the events delivered.
\*   "reader"  : the listener calls loadConfig while the event is delivered
\*   "thrower" : the listener throws, so emit throws inside the try block
\*   "updater" : the listener calls setOpacity while the event is delivered
updateConfig(f, updates, ok, lsn) ==
  LET m == LoadMergeSave(f, updates, ok)
      currentConfig == m.cur
      newConfig == m.new
      written == m.file
      emits == ShouldEmit(m.updates)
      thrown == emits /\ lsn = "thrower"
  IN [file |-> IF emits THEN AfterDelivery(written, ok, lsn) ELSE written,
      cur |-> currentConfig,
      new |-> newConfig,
      ret |-> IF thrown THEN UpdateFallback(currentConfig) ELSE newConfig,
      emitted |-> IF emits THEN <<newConfig>> ELSE <<>>,
      steps |-> IF emits
                THEN UpdateSteps(emits) \o ListenerSteps(lsn)
                ELSE UpdateSteps(emits),
      seen |-> IF emits /\ lsn = "reader"
               THEN <<loadConfig(written, ok).cfg>>
               ELSE <<>>,
      saved |-> ok,
      threw |-> thrown]

\* setOpacity, line 264.
ClampOpacity(opacity) ==
  LET lower == IF opacity > MinOpacity THEN opacity ELSE MinOpacity
  IN IF lower < MaxOpacity THEN lower ELSE MaxOpacity

\* hasApiKey without the trim of line 248.
hasApiKeyUntrimmed(config) ==
  Truthy(config, "apiKey") /\ Len(config["apiKey"]) > 0

\* hasApiKey, line 248.
hasApiKey(config) ==
  Truthy(config, "apiKey") /\ Len(Trim(config["apiKey"])) > 0

\* getOpacity, line 256.
getOpacity(config) ==
  IF "opacity" \in DOMAIN config THEN config["opacity"] ELSE 10

\* getLanguage, line 273.
getLanguage(config) ==
  IF Truthy(config, "language") THEN config["language"] ELSE "python"

\* ------------------------------------------------------- partial updates
\* The values a caller gives a field of a partial update.
InputsOf(k) ==
  CASE k = "apiKey" -> Keys
    [] k = "apiProvider" -> Providers
    [] k \in ModelFields -> ModelInputs
    [] k = "language" -> Languages
    [] k = "opacity" -> {ClampOpacity(o) : o \in OpacityInputs}

\* The objects that define exactly the key k.
One(k) == {k :> v : v \in InputsOf(k)}

\* The objects that define exactly the keys k1 and k2.
Two(k1, k2) == {(k1 :> v1) @@ (k2 :> v2) : v1 \in InputsOf(k1), v2 \in InputsOf(k2)}

\* The partial updates callers pass: nothing, one field, a key with its
\* provider, a provider with a model (the three model fields go through the
\* same code, lines 201-218), a language with an opacity.
Partials ==
  {EmptyObj}
    \cup UNION {One(k) : k \in Fields}
    \cup Two("apiKey", "apiProvider")
    \cup Two("apiProvider", "extractionModel")
    \cup Two("language", "opacity")

\* The listeners of config-updated: one that reloads the configuration when
\* the event is delivered, one that throws, and one that updates the
\* configuration itself.
Listeners == {"reader", "thrower", "updater"}

UpdateOps == {"updateConfig", "setOpacity", "setLanguage"}

ReadOps == {"loadConfig", "hasApiKey", "getOpacity", "getLanguage"}

\* ---------------------------------------------------------------- state
\* file and listener are the program's state. The other variables describe
\* the calls whose results the caller still holds: the last call of
\* updateConfig (op .. threw) and the last reading call made since (rop, got).
\* Release drops them; it changes nothing of the program, so requiring it
\* before the next call loses no behaviour.
VARIABLES
  file,      \* the backing file config.json
  fsOk,      \* whether the file system accepts writes; fixed for a run
  listener,  \* the behaviour of the listener registered for config-updated
  calls,     \* how many updating calls the run has made
  op,        \* the updating method called last, "none" after Release
  given,     \* the argument that method was called with
  arg,       \* the updates object that updateConfig call was given
  cur,       \* currentConfig of that call
  ret,       \* the value that updateConfig call returned
  emitted,   \* the payloads of the events that call emitted
  steps,     \* the effects of that call, in order
  seen,      \* what a reading listener got from loadConfig during delivery
  saved,     \* whether the write of that call succeeded
  threw,     \* whether that call ended in its catch block
  rop,       \* the reading method called last, "none" if there was none
  got        \* the value that reading call returned

vars ==
  <<file, fsOk, listener, calls, op, given, arg, cur, ret, emitted, steps, seen,
    saved, threw, rop, got>>

updateVars == <<op, given, arg, cur, ret, emitted, steps, seen, saved, threw>>

NoUpdate ==
  /\ op = "none"
  /\ given = EmptyObj
  /\ arg = EmptyObj
  /\ cur = EmptyObj
  /\ ret = EmptyObj
  /\ emitted = <<>>
  /\ steps = <<>>
  /\ seen = <<>>
  /\ saved = FALSE
  /\ threw = FALSE

NoRead == rop = "none" /\ got = EmptyObj

\* The constructor: ensureConfigExists writes the defaults when there is no
\* file; the write can fail, which leaves no file, and the file can be
\* removed afterwards. The application registers its listener at startup.
Init ==
  /\ file \in {FileOf(defaultConfig), NoFile}
  /\ fsOk \in BOOLEAN
  /\ listener \in Listeners
  /\ calls = 0
  /\ NoUpdate
  /\ NoRead

\* The effects of a call of updateConfig(updates) made by the method name,
\* which was itself called with the argument input.
DoUpdate(name, input, updates) ==
  LET r == updateConfig(file, updates, fsOk, listener)
  IN /\ op = "none" /\ rop = "none"
     /\ calls < MaxCalls
     /\ calls' = calls + 1
     /\ file' = r.file
     /\ op' = name
     /\ given' = input
     /\ arg' = updates
     /\ cur' = r.cur
     /\ ret' = r.ret
     /\ emitted' = r.emitted
     /\ steps' = r.steps
     /\ seen' = r.seen
     /\ saved' = r.saved
     /\ threw' = r.threw
     /\ UNCHANGED <<fsOk, listener, rop, got>>

\* What the reading method name answers from the configuration it loaded.
ReadResult(name, config) ==
  CASE name = "loadConfig" -> config
    [] name = "hasApiKey" -> hasApiKey(config)
    [] name = "getOpacity" -> getOpacity(config)
    [] name = "getLanguage" -> getLanguage(config)

\* The effects of a call of a method that only reads.
DoRead(name) ==
  LET l == loadConfig(file, fsOk)
  IN /\ rop = "none"
     /\ file' = l.file
     /\ rop' = name
     /\ got' = ReadResult(name, l.cfg)
     /\ UNCHANGED <<fsOk, listener, calls>>
     /\ UNCHANGED updateVars

\* A second loadConfig right after a first: the caller holds both results.
LoadConfigAgain ==
  LET l == loadConfig(file, fsOk)
  IN /\ rop = "loadConfig"
     /\ file' = l.file
     /\ rop' = "loadConfig twice"
     /\ got' = <<got, l.cfg>>
     /\ UNCHANGED <<fsOk, listener, calls>>
     /\ UNCHANGED updateVars

UpdateConfig == \E u \in Partials : DoUpdate("updateConfig", u, u)

SetOpacity ==
  \E o \in OpacityInputs :
    DoUpdate("setOpacity", o, [opacity |-> ClampOpacity(o)])

SetLanguage == \E l \in Languages : DoUpdate("setLanguage", l, [language |-> l])

LoadConfig == DoRead("loadConfig")

HasApiKey == DoRead("hasApiKey")

GetOpacity == DoRead("getOpacity")

GetLanguage == DoRead("getLanguage")

\* The caller drops the results it holds.
Release ==
  /\ (op # "none" \/ rop # "none")
  /\ op' = "none"
  /\ given' = EmptyObj
  /\ arg' = EmptyObj
  /\ cur' = EmptyObj
  /\ ret' = EmptyObj
  /\ emitted' = <<>>
  /\ steps' = <<>>
  /\ seen' = <<>>
  /\ saved' = FALSE
  /\ threw' = FALSE
  /\ rop' = "none"
  /\ got' = EmptyObj
  /\ UNCHANGED <<file, fsOk, listener, calls>>

Next ==
  \/ UpdateConfig
  \/ SetOpacity
  \/ SetLanguage
  \/ LoadConfig
  \/ HasApiKey
  \/ GetOpacity
  \/ GetLanguage
  \/ Release

Spec == Init /\ [][Next]_vars

\* ------------------------------------------------- loading any document
\* The values a field of an on-disk document may hold: the file outlives the
\* process and is written by other versions and by hand.
DiskValuesOf(k) ==
  CASE k = "apiKey" -> {<<>>, <<"s", "k", "-", "a">>}
    [] k = "apiProvider" -> Providers \cup {"bogus"}
    [] k \in ModelFields -> {"gpt-4o", "not-a-real-model", "", Null}
    [] k = "language" -> {"java", Null}
    [] k = "opacity" -> {5}

\* The objects of S, and each of them with a value for the key k.
WithField(S, k) == S \cup {Assign(d, k, v) : d \in S, v \in DiskValuesOf(k)}

\* The documents found on disk: any subset of the seven fields.
DiskDocs ==
  WithField(
    WithField(
      WithField(
        WithField(
          WithField(
            WithField(WithField({EmptyObj}, "apiKey"), "apiProvider"),
            "extractionModel"),
          "solutionModel"),
        "debuggingModel"),
      "language"),
    "opacity")

\* A file that exists but cannot be read or is not JSON.
BadFile == [exists |-> TRUE, parses |-> FALSE, text |-> <<>>]

InitLoad ==
  /\ file \in {FileOf(d) : d \in DiskDocs} \cup {BadFile, NoFile}
  /\ fsOk \in BOOLEAN
  /\ listener = "reader"
  /\ calls = 0
  /\ NoUpdate
  /\ NoRead

NextLoad ==
  \/ LoadConfig
  \/ LoadConfigAgain
  \/ HasApiKey
  \/ GetOpacity
  \/ GetLanguage
  \/ Release

SpecLoad == InitLoad /\ [][NextLoad]_vars

\* ------------------------------------------------------------ properties
\* The allow-list of a provider and its fallback, as the specification's
\* table gives them.
AllowList(provider) ==
  CASE provider = "openai" -> {"gpt-4o", "gpt-4o-mini", "gpt-5"}
    [] provider = "gemini" -> {"gemini-1.5-pro", "gemini-2.0-flash"}
    [] provider = "anthropic" ->
         {"claude-3-7-sonnet-20250219", "claude-3-5-sonnet-20241022",
          "claude-3-opus-20240229"}
    [] OTHER -> {}

CanonicalDefault(provider) ==
  CASE provider = "openai" -> "gpt-5"
    [] provider = "gemini" -> "gemini-2.0-flash"
    [] provider = "anthropic" -> "claude-3-7-sonnet-20250219"

\* The document the file holds.
Stored == JSONParse(file.text)

\* A call of updateConfig has returned and the caller holds its results.
Updated == op \in UpdateOps

\* ... and it returned from its try block, not from its catch block.
Completed == Updated /\ ~threw

\* The effective provider of the held update as the specification defines
\* it: the explicit one, else openai for a key with the literal prefix sk-,
\* else the one loaded before the update.
ClaimedProvider ==
  IF "apiProvider" \in DOMAIN arg
  THEN arg["apiProvider"]
  ELSE IF "apiKey" \in DOMAIN arg /\ StartsWith(arg["apiKey"], SkPrefix)
  THEN "openai"
  ELSE cur["apiProvider"]

\* Every model of the configuration c is allow-listed for c's provider.
ModelsValid(c) ==
  /\ c["apiProvider"] \in Providers
  /\ \A m \in ModelFields : c[m] \in AllowList(c["apiProvider"])

\* C1: an update that completes and whose effective provider differs from
\* the provider loaded before it returns all three models equal to the new
\* provider's canonical default.
C1_SwitchResetsModels ==
  (Completed /\ ClaimedProvider # cur["apiProvider"]) =>
    \A m \in ModelFields : ret[m] = CanonicalDefault(ClaimedProvider)

\* C2: in every configuration updateConfig returns, in every persisted
\* document and in every config-updated payload the three models belong to
\* the allow-list of that configuration's provider.
C2_ModelsAlwaysValid ==
  /\ Updated => ModelsValid(ret)
  /\ file.exists => ModelsValid(Stored)
  /\ \A i \in 1..Len(emitted) : ModelsValid(emitted[i])

\* C3: whatever the document on disk, loadConfig returns a known provider
\* and three models of that provider's allow-list.
C3_LoadReturnsValid == rop = "loadConfig" => ModelsValid(got)

\* The field k of the object c has a value that is neither undefined nor
\* null.
Defined(c, k) ==
  /\ k \in DOMAIN c
  /\ (k \in ModelFields \cup {"language", "apiProvider"}) => c[k] # Null

\* C4: whatever is on disk (nothing, an unreadable file, a partial document,
\* a document with null fields), loadConfig returns a configuration whose
\* seven fields are all defined.
C4_LoadReturnsAllFields ==
  rop = "loadConfig" => \A k \in Fields : Defined(got, k)

\* C5: an update that completes returns, for every model field its partial
\* carries, the effective provider's fallback when the value is not in that
\* provider's allow-list (the empty string included), and the value itself
\* when it is allow-listed and the provider does not change.
C5_UpdateSanitizesModels ==
  Completed =>
    \A m \in ModelFields \cap DOMAIN arg :
      /\ arg[m] \notin AllowList(ClaimedProvider) =>
           ret[m] = CanonicalDefault(ClaimedProvider)
      /\ (arg[m] \in AllowList(ClaimedProvider)
            /\ ClaimedProvider = cur["apiProvider"]) => ret[m] = arg[m]

C7_EmitsUnlessOnlyOpacity ==
  Updated =>
    /\ Len(emitted) = IF DOMAIN arg \subseteq {"opacity"} THEN 0 ELSE 1
    /\ op = "setOpacity" => emitted = <<>>

\* updateConfig({opacity: 0.5}) has written the new opacity and emitted
\* nothing.
C7_Witness ==
  /\ op = "updateConfig"
  /\ arg = [opacity |-> 5]
  /\ saved
  /\ Stored["opacity"] = 5
  /\ emitted = <<>>

\* The position of the step s in the steps of the held update, 0 if absent.
StepAt(s) ==
  IF \E i \in 1..Len(steps) : steps[i] = s
  THEN CHOOSE i \in 1..Len(steps) : steps[i] = s
  ELSE 0

\* C8: every config-updated event carries all seven fields of the new
\* configuration, the value its updateConfig call returns; it is emitted
\* after that call's save; and a listener that calls loadConfig during
\* delivery reads that configuration when the write succeeded.
C8_PayloadAndOrder ==
  Updated =>
    \A i \in 1..Len(emitted) :
      /\ DOMAIN emitted[i] = Fields
      /\ ~threw => emitted[i] = ret
      /\ 0 < StepAt("save") /\ StepAt("save") < StepAt("emit")
      /\ \A j \in 1..Len(seen) : saved => seen[j] = emitted[i]

\* C9: an updateConfig call that ends in its catch block returns the
\* configuration it loaded at its start.
C9_FailureReturnsLoaded == (Updated /\ threw) => ret = cur

\* C10: when the write of an updateConfig call fails, the call still returns
\* the new configuration and the reading calls that follow answer from it.
C10_FailedWriteStaysAuthoritative ==
  (Completed /\ ~saved) =>
    /\ \A k \in DOMAIN arg \ (ModelFields \cup {"apiProvider"}) :
         ret[k] = arg[k]
    /\ rop = "loadConfig" => got = ret
    /\ rop = "hasApiKey" => got = (Len(Trim(ret["apiKey"])) > 0)
    /\ rop = "getOpacity" => got = ret["opacity"]
    /\ rop = "getLanguage" => got = ret["language"]

\* C11: when the write of an updateConfig call succeeded, the loadConfig that
\* follows it returns the configuration that call saved and returned.
C11_SavedThenLoaded ==
  (Completed /\ saved /\ rop = "loadConfig") => got = ret

\* min(1.0, max(0.1, v)) in tenths, as the specification states the clamp.
ClaimedOpacity(v) == IF v < 1 THEN 1 ELSE IF v > 10 THEN 10 ELSE v

\* C12: after setOpacity(v) the stored opacity is min(1.0, max(0.1, v)), within
\* [0.1, 1.0], and getOpacity returns that value.
C12_OpacityClamped ==
  op = "setOpacity" =>
    /\ saved => /\ Stored["opacity"] = ClaimedOpacity(given)
                /\ Stored["opacity"] \in MinOpacity..MaxOpacity
    /\ rop = "getOpacity" => got = ClaimedOpacity(given)

\* C13: two consecutive loadConfig calls with no update in between return
\* identical configurations, whatever the file holds and whether or not it
\* can be written.
C13_LoadTwiceSame ==
  rop = "loadConfig twice" => got[2] = got[1]

C13_Witness ==
  /\ rop = "loadConfig twice"
  /\ file.exists /\ file.parses
  /\ Stored = [apiProvider |-> "bogus"]
  /\ got[2]["apiProvider"] = "gemini"

\* C14: after a loadConfig that completes with a working file system the
\* document on disk, if it is one, holds all seven fields, a partial one
\* having been backfilled with the defaults.
C14_LoadLeavesCompleteFile ==
  (rop = "loadConfig" /\ fsOk /\ file.exists /\ file.parses) =>
    Fields \subseteq DOMAIN Stored

\* A key that is non-empty after trimming: it has a character that is not
\* white space.
NonBlank(key) == \E i \in 1..Len(key) : key[i] # " "

\* The apiKey the last update committed to the file.
CommittedKey == IF "apiKey" \in DOMAIN arg THEN arg["apiKey"] ELSE cur["apiKey"]

\* C15: hasApiKey answers true exactly when the stored apiKey is non-empty
\* after trimming, and after an update it answers for the key that update
\* committed.
C15_HasKeyIffStoredNonBlank ==
  rop = "hasApiKey" =>
    /\ got = (/\ file.exists /\ file.parses
              /\ "apiKey" \in DOMAIN Stored
              /\ NonBlank(Stored["apiKey"]))
    /\ (Updated /\ saved) => got = NonBlank(CommittedKey)

C15_Witness ==
  /\ rop = "hasApiKey"
  /\ op = "updateConfig" /\ saved
  /\ arg = [apiKey |-> <<" ">>]
  /\ Stored["apiKey"] = <<" ">>
  /\ got = FALSE

\* The update leaves the provider as the configuration it loaded had it.
KeepsProvider == EffectiveProvider(arg, cur) = cur["apiProvider"]

\* C16: an update that does not change the provider leaves every field its
\* partial does not define as the loaded configuration had it, in the value
\* it returns and in the document it persists.
C16_FrameOfUpdate ==
  (Updated /\ KeepsProvider) =>
    \A k \in Fields \ DOMAIN arg :
      /\ ret[k] = cur[k]
      /\ saved => Stored[k] = cur[k]

\* The listener updated the configuration during the last call.
Reentered == Updated /\ listener = "updater" /\ emitted # <<>>

C18_LoadWritesOnlyAbsentFile ==
  [][rop' # rop /\ rop' # "none" =>
       IF file.exists
       THEN file' = file
       ELSE file' \in {file, FileOf(defaultConfig)}]_vars

C18_Witness ==
  /\ rop = "loadConfig"
  /\ file.exists /\ file.parses
  /\ Stored = [apiProvider |-> "bogus"]
  /\ got["apiProvider"] = "gemini"
  /\ got["language"] = "python"

====
